---- MODULE Spec2Model ----
(***************************************************************************)
(* wa-gate-v2.  The event delivery pipeline of src/services/webhook.service *)
(* (registry, in-memory queue, single drain loop, retry timers) and the     *)
(* circuit-broken sender, the WebhookService class that follows the         *)
(* ValidationService in validation.service.js (send, retryRequest,          *)
(* isCircuitOpen, recordFailure), and the connection manager of             *)
(* src/services/whatsapp.service.js (initialize, the client's event         *)
(* handlers, _handleReconnection, logout), and the QR store of              *)
(* src/services/qr.service.js (handleQR, unlockQR, cleanup). The registry   *)
(* is also modelled as the HTTP API drives it, through the handlers of      *)
(* src/controllers/webhook.controller.js and validateWebhookData.           *)
(*                                                                         *)
(* JavaScript runs each callback to its next await without interleaving, so *)
(* one action is one such run: a public call up to its first await, or the  *)
(* continuation after an HTTP response or a timer.                          *)
(***************************************************************************)
EXTENDS Integers, Sequences, FiniteSets, Bags, TLC

(* ---------------- bounds of the model ---------------- *)
\* webhooks ever registered
MaxHooks == 2
\* webhook objects ever allocated (registerWebhook and updateWebhook each allocate one)
MaxObjs == 3
\* _triggerWebhook calls ever made
MaxEvents == 2
\* delivery tasks ever created
MaxTasks == 2
\* concurrent send() calls of the circuit-broken sender
MaxSends == 2
\* send() calls ever made
MaxSendCalls == 5
\* the clock of the circuit-broken sender stops here
MaxTime == 4
\* circuitBreaker.threshold (20 in the source), scaled down: the code compares
\* failures with it and nothing else depends on its value
threshold == 2
\* Client objects ever created by initialize()
MaxClients == 5
\* 'qr' notifications whose image is still being rendered
MaxQrPending == 1
\* handleQR() calls ever accepted by the QR store
MaxQrIssued == 2
\* testWebhook() calls ever made
MaxTests == 2
\* scheduleMessage() calls ever made
MaxMsgs == 3

(* ---------------- program constants ---------------- *)
\* this.maxRetries of the pipeline
maxRetries == 3
\* the retries argument send() passes to retryRequest
sendRetries == 3
\* circuitBreaker.cooldown, 30000 ms, in clock ticks of 15000 ms (the axios timeout)
cooldown == 2
\* this.maxRetries of the connection manager
waMaxRetries == 3
\* QR.LOCK_TIMEOUT, 30000 ms, in clock ticks of 15000 ms
LOCK_TIMEOUT == 2
\* Math.min(1000 * Math.pow(2, this.retryCount), 30000)
backoffBase == 1000
backoffFactor == 2
backoffCap == 30000

\* the event kinds published in the model (two of the seven of _setupListeners)
EventKinds == {"message.received", "client.ready"}

VARIABLES
  \* ---- pipeline (webhook.service.js) ----
  heap,          \* the webhook objects ever allocated; a reference is an index
  webhooks,      \* this.webhooks: the Map, in insertion order, of [id, ref]
  nextId,        \* the next generated webhook id
  eventQueue,    \* this.eventQueue: sequence of items [tid, webhook, retries]; tid is the item object's identity, the payload is left out
  isProcessing,  \* this.isProcessing
  loops,         \* the running _processQueue() invocations: [pc, item]
  timers,        \* pending retry setTimeout callbacks: [item, young]
  awaiting,      \* _triggerWebhook() calls that have not returned yet
  published,     \* number of _triggerWebhook() calls made so far
  hist,          \* history of every item ever created, by tid: [hook, posts, fails, status]
  \* ---- circuit-broken sender (validation.service.js, second class) ----
  circuitBreaker, \* this.circuitBreaker: [failures, isOpen, lastOpened]
  webhookStats,   \* this.webhookStats: [totalRequests, successfulRequests, failedRequests]
  sends,          \* the send() calls in progress, by slot: [pc, retries]
  now,            \* Date.now(), in ticks
  \* ---- connection manager (whatsapp.service.js) ----
  clients,        \* the Client objects ever created, each with the handlers of _setupEventHandlers: its state
  client,         \* this.client: an index of clients, 0 for null
  isReady,        \* this.isReady
  qrCode,         \* this.qrCode is set (not null)
  sessionData,    \* this.sessionData is set (not null)
  retryCount,     \* this.retryCount
  reconnectTimers, \* the pending setTimeout callbacks of _handleReconnection: a bag of [n, delay]
  qrRenders,      \* 'qr' handlers waiting for qrcode.toDataURL
  logoutOp,       \* the logout() call in progress: [pc, c], pc = "none" when there is none
  lastEmit,       \* the events the service emitted in the last step, in order
  loggedOut,      \* history: a logout() has completed and initialize() was not called from outside since
  exhausted,      \* history: a disconnect found retryCount at maxRetries and initialize() was not called from outside since
  \* ---- QR store (qr.service.js) ----
  qrBase64,       \* this.qrBase64: the token whose image is stored, 0 for null
  qrFile,         \* the backup file qr.tmp: the token whose image it holds, 0 when there is no file
  qrLocked,       \* this.qrLocked
  qrLockTime,     \* this.qrLockTime, Null for null
  qrOps,          \* the handleQR() calls past the lock, at an await: [tok, pc]
  qrIssued,       \* number of handleQR() calls accepted so far; the next token
  unlockTimers,   \* the pending setTimeout(() => this.unlockQR(), LOCK_TIMEOUT): a bag of due times
  cleanupPc,      \* the cleanup() call in progress: "none", "access", "unlink"
  qrLast,         \* history: what the handleQR() call of the last step did, "" when the step was none
  cleared,        \* history: "done" when a cleanup() has completed and no handleQR() was accepted since it was called
  \* ---- HTTP API of the registry (webhook.controller.js) ----
  lastResponse,   \* the response of the last request: [status, errors]
  tests,          \* the testWebhook() calls: [calls, number made; posts, number of POSTs they issued; pending, the webhook objects of the calls awaiting their POST; last, "ok" or "failed" when the last step ended a call]
  \* ---- pipeline, history for clearQueue() ----
  clearedUpTo,    \* history: the number of delivery tasks that existed when clearQueue() was last called
  \* ---- scheduled messages (message.service.js) ----
  messageQueue,   \* this.messageQueue of the message service: the ids of the scheduled messages it holds, in order
  messages,       \* the scheduled-message objects ever created, by id: [status, due, handed]; due: scheduledAt has passed; handed is history: the times the loop called sendMessage for it
  isProcessingQueue, \* this.isProcessingQueue
  msgLoops        \* the running _processQueue() invocations of the message service: [pc, cur, rest]

pipeVars == <<heap, webhooks, nextId, eventQueue, isProcessing, loops, timers,
              awaiting, published, hist>>
sendVars == <<circuitBreaker, webhookStats, sends, now>>
waVars == <<clients, client, isReady, qrCode, sessionData, retryCount,
            reconnectTimers, qrRenders, logoutOp, lastEmit,
            loggedOut, exhausted>>
qrVars == <<qrBase64, qrFile, qrLocked, qrLockTime, qrOps, qrIssued,
            unlockTimers, cleanupPc, qrLast, cleared>>
msgVars == <<messageQueue, messages, isProcessingQueue, msgLoops>>
vars == <<heap, webhooks, nextId, eventQueue, isProcessing, loops, timers,
          awaiting, published, hist, circuitBreaker, webhookStats, sends, now,
          clients, client, isReady, qrCode, sessionData, retryCount,
          reconnectTimers, qrRenders, logoutOp, lastEmit,
          loggedOut, exhausted,
          qrBase64, qrFile, qrLocked, qrLockTime, qrOps, qrIssued,
          unlockTimers, cleanupPc, qrLast, cleared, lastResponse,
          tests, clearedUpTo,
          messageQueue, messages, isProcessingQueue, msgLoops>>

Range(s) == {s[i] : i \in DOMAIN s}

\* lastOpened: null
Null == -1

(***************************************************************************)
(* Pipeline: registry                                                      *)
(***************************************************************************)

\* the object registerWebhook builds (url, name, secret, lastTriggered do not
\* influence delivery and are left out; createdAt is the time of the call)
NewWebhook(id, events) ==
  [id |-> id, url |-> "https://host/hook", events |-> events, isActive |-> TRUE,
   createdAt |-> "created", successCount |-> 0, failureCount |-> 0]

\* registerWebhook({url, events, ...}) with a valid url and an events array
registerWebhook(events) ==
  /\ nextId <= MaxHooks
  /\ Len(heap) < MaxObjs
  /\ heap' = Append(heap, NewWebhook(nextId, events))
  /\ webhooks' = Append(webhooks, [id |-> nextId, ref |-> Len(heap) + 1])
  /\ nextId' = nextId + 1
  /\ UNCHANGED <<eventQueue, isProcessing, loops, timers, awaiting, published, hist>>

\* { ...webhook, ...updates }
Spread(webhook, updates) ==
  [f \in (DOMAIN webhook) \cup (DOMAIN updates) |->
     IF f \in DOMAIN updates THEN updates[f] ELSE webhook[f]]

\* events: null. A PUT body {"events": null} passes the controller (it validates
\* events only when truthy) and updateWebhook spreads it into the object.
NullEvents == {"<null>"}

\* the events arrays tried at registration: one kind each
RegisterInputs == {{k} : k \in EventKinds}

\* the update bodies tried: toggling isActive, replacing the events
UpdateInputs ==
  {[isActive |-> b] : b \in BOOLEAN}
    \cup {[events |-> s] : s \in {NullEvents, EventKinds}}

\* updateWebhook(webhookId, updates) for a known id: a NEW object replaces the
\* Map's entry; items already queued keep their reference to the old one
updateWebhook(i, updates) ==
  /\ i \in DOMAIN webhooks
  /\ Len(heap) < MaxObjs
  /\ heap' = Append(heap, Spread(heap[webhooks[i].ref], updates))
  /\ webhooks' = [webhooks EXCEPT ![i].ref = Len(heap) + 1]
  /\ UNCHANGED <<nextId, eventQueue, isProcessing, loops, timers, awaiting, published, hist>>

\* deleteWebhook(webhookId) for a known id
deleteWebhook(i) ==
  /\ i \in DOMAIN webhooks
  /\ webhooks' = [j \in 1..(Len(webhooks) - 1) |->
                    IF j < i THEN webhooks[j] ELSE webhooks[j + 1]]
  /\ UNCHANGED <<heap, nextId, eventQueue, isProcessing, loops, timers, awaiting, published,
                 hist>>

(***************************************************************************)
(* Pipeline: publish                                                       *)
(***************************************************************************)

\* Array.from(this.webhooks.values()).filter(w => w.isActive && w.events.includes(eventType))
subscribedWebhooks(eventType) ==
  LET Test(w) == heap[w.ref].isActive /\ eventType \in heap[w.ref].events
  IN  SelectSeq(webhooks, Test)

\* webhook.events.includes(...) throws a TypeError when events is null; && skips it
\* for an inactive webhook. The throw leaves filter() and is caught at line 308.
FilterThrows ==
  \E w \in Range(webhooks) : heap[w.ref].isActive /\ heap[w.ref].events = NullEvents

\* the items pushed for one event: { webhook, payload, retries: 0 } per subscriber
NewItems(subs) ==
  [k \in 1..Len(subs) |->
     [tid |-> Len(hist) + k, webhook |-> subs[k].ref, retries |-> 0]]

NewHist(items) ==
  [k \in 1..Len(items) |->
     [hook |-> heap[items[k].webhook].id,
      posts |-> 0, fails |-> 0, status |-> "pending"]]

\* mutant: the loop is started whatever isProcessing says
ShouldStartLoop_Always == TRUE

\* if (!this.isProcessing) this._processQueue()
ShouldStartLoop == ~isProcessing

\* mutant: await this._processQueue()
ProcessQueueAwaited_Yes == TRUE

\* _triggerWebhook calls this._processQueue() without awaiting it
ProcessQueueAwaited == FALSE

\* _triggerWebhook(eventType, data), up to its return. When it starts the loop,
\* _processQueue runs synchronously up to its first await: it sets isProcessing,
\* shifts the head and issues the POST of _sendWebhook.
triggerWebhook(eventType) ==
  LET subs  == subscribedWebhooks(eventType)
      items == NewItems(subs)
      q     == eventQueue \o items
  IN  /\ published < MaxEvents
      /\ published' = published + 1
      /\ IF FilterThrows \/ Len(subs) = 0
           THEN UNCHANGED <<eventQueue, isProcessing, loops, hist, awaiting>>
           ELSE IF Len(hist) + Len(subs) > MaxTasks
             THEN FALSE
           ELSE IF ShouldStartLoop
             THEN /\ isProcessing' = TRUE
                  /\ eventQueue' = Tail(q)
                  /\ loops' = loops \cup {[pc |-> "http", item |-> Head(q)]}
                  /\ hist' = [(hist \o NewHist(items)) EXCEPT
                                ![Head(q).tid].posts = @ + 1]
                  /\ awaiting' = IF ProcessQueueAwaited THEN awaiting + 1 ELSE awaiting
             ELSE /\ eventQueue' = q
                  /\ hist' = hist \o NewHist(items)
                  /\ UNCHANGED <<isProcessing, loops, awaiting>>
      /\ UNCHANGED <<heap, webhooks, nextId, timers>>

(***************************************************************************)
(* Pipeline: the drain loop                                                *)
(***************************************************************************)

\* mutant: one retry too many
ShouldRetry_Leq(item) == item.retries <= maxRetries

\* if (item.retries < this.maxRetries)
ShouldRetry(item) == item.retries < maxRetries

\* the await of _sendWebhook returns with a 2xx: successCount++ on the item's object
SendOk(l) ==
  /\ l \in loops /\ l.pc = "http"
  /\ heap' = [heap EXCEPT ![l.item.webhook].successCount = @ + 1]
  /\ hist' = [hist EXCEPT ![l.item.tid].status = "delivered"]
  /\ loops' = (loops \ {l}) \cup {[l EXCEPT !.pc = "delay"]}
  /\ UNCHANGED <<webhooks, nextId, eventQueue, isProcessing, timers, awaiting, published>>

\* the await of _sendWebhook throws (non-2xx, network error, timeout):
\* failureCount++, then the retry timer or the drop
SendFail(l) ==
  /\ l \in loops /\ l.pc = "http"
  /\ heap' = [heap EXCEPT ![l.item.webhook].failureCount = @ + 1]
  /\ IF ShouldRetry(l.item)
       THEN LET item == [l.item EXCEPT !.retries = @ + 1]
            IN  /\ timers' = timers \cup {[item |-> item, young |-> TRUE]}
                /\ hist' = [hist EXCEPT ![l.item.tid].fails = @ + 1]
                /\ loops' = (loops \ {l}) \cup {[pc |-> "delay", item |-> item]}
       ELSE /\ hist' = [hist EXCEPT ![l.item.tid].fails = @ + 1,
                                    ![l.item.tid].status = "dropped"]
            /\ loops' = (loops \ {l}) \cup {[l EXCEPT !.pc = "delay"]}
            /\ UNCHANGED timers
  /\ UNCHANGED <<webhooks, nextId, eventQueue, isProcessing, awaiting, published>>

\* await this._delay(100) returns: the while condition is evaluated again. A retry
\* timer armed in this iteration (5000 ms or more) cannot have fired before.
DelayDone(l) ==
  /\ l \in loops /\ l.pc = "delay"
  /\ timers' = {[t EXCEPT !.young = FALSE] : t \in timers}
  /\ IF Len(eventQueue) > 0
       THEN /\ eventQueue' = Tail(eventQueue)
            /\ loops' = (loops \ {l}) \cup {[pc |-> "http", item |-> Head(eventQueue)]}
            /\ hist' = [hist EXCEPT ![Head(eventQueue).tid].posts = @ + 1]
            /\ UNCHANGED <<isProcessing, awaiting>>
       ELSE /\ isProcessing' = FALSE
            /\ loops' = loops \ {l}
            /\ awaiting' = 0
            /\ UNCHANGED <<eventQueue, hist>>
  /\ UNCHANGED <<heap, webhooks, nextId, published>>

\* the setTimeout callback of a retry: this.eventQueue.push(item), and nothing else
RetryTimer(t) ==
  /\ t \in timers /\ ~t.young
  /\ eventQueue' = Append(eventQueue, t.item)
  /\ timers' = timers \ {t}
  /\ UNCHANGED <<heap, webhooks, nextId, isProcessing, loops, awaiting, published, hist>>

\* clearQueue(): this.eventQueue = []
clearQueue ==
  /\ Len(eventQueue) > 0
  /\ eventQueue' = <<>>
  /\ hist' = [t \in DOMAIN hist |->
                IF \E i \in DOMAIN eventQueue : eventQueue[i].tid = t
                  THEN [hist[t] EXCEPT !.status = "cleared"] ELSE hist[t]]
  /\ UNCHANGED <<heap, webhooks, nextId, isProcessing, loops, timers, awaiting, published>>


(***************************************************************************)
(* Circuit-broken sender (validation.service.js, class WebhookService)     *)
(***************************************************************************)

\* mutant: the cooldown closes the circuit but leaves the failure count
isCircuitOpen_NoReset(cb, t) ==
  IF cb.isOpen /\ t - cb.lastOpened > cooldown
    THEN [cb EXCEPT !.isOpen = FALSE]
    ELSE cb

\* isCircuitOpen(): the breaker as the call leaves it; its result is the isOpen field
isCircuitOpen(cb, t) ==
  IF cb.isOpen /\ t - cb.lastOpened > cooldown
    THEN [cb EXCEPT !.isOpen = FALSE, !.failures = 0]
    ELSE cb

\* recordFailure()
recordFailure(cb, t) ==
  IF cb.failures + 1 >= threshold
    THEN [failures |-> cb.failures + 1, isOpen |-> TRUE, lastOpened |-> t]
    ELSE [cb EXCEPT !.failures = @ + 1]

\* send(data) up to its first await: the statistics, the breaker check, and the
\* first POST of retryRequest(fn, 3)
send(s) ==
  /\ sends[s].pc = "idle"
  /\ webhookStats.totalRequests < MaxSendCalls
  /\ webhookStats' = [webhookStats EXCEPT !.totalRequests = @ + 1]
  /\ circuitBreaker' = isCircuitOpen(circuitBreaker, now)
  /\ sends' = IF circuitBreaker'.isOpen
                THEN sends
                ELSE [sends EXCEPT ![s] = [pc |-> "http", retries |-> sendRetries]]
  /\ UNCHANGED now

\* the POST answers 2xx: retryRequest returns, send() counts the success
AttemptOk(s) ==
  /\ sends[s].pc = "http"
  /\ webhookStats' = [webhookStats EXCEPT !.successfulRequests = @ + 1]
  /\ circuitBreaker' = [circuitBreaker EXCEPT !.failures = 0]
  /\ sends' = [sends EXCEPT ![s] = [pc |-> "idle", retries |-> 0]]
  /\ UNCHANGED now

\* the POST fails: retryRequest rethrows when no retry is left (send() then counts
\* the failure and calls recordFailure), and waits for its delay otherwise
AttemptFail(s) ==
  /\ sends[s].pc = "http"
  /\ IF sends[s].retries <= 0
       THEN /\ webhookStats' = [webhookStats EXCEPT !.failedRequests = @ + 1]
            /\ circuitBreaker' = recordFailure(circuitBreaker, now)
            /\ sends' = [sends EXCEPT ![s] = [pc |-> "idle", retries |-> 0]]
       ELSE /\ sends' = [sends EXCEPT ![s].pc = "backoff"]
            /\ UNCHANGED <<webhookStats, circuitBreaker>>
  /\ UNCHANGED now

\* the delay of retryRequest is over: retryRequest(fn, retries - 1, delay * 2) posts again
RetryRequest(s) ==
  /\ sends[s].pc = "backoff"
  /\ sends' = [sends EXCEPT ![s] = [pc |-> "http", retries |-> sends[s].retries - 1]]
  /\ UNCHANGED <<webhookStats, circuitBreaker, now>>

\* time passes
Tick ==
  /\ now < MaxTime
  /\ now' = now + 1
  /\ UNCHANGED <<webhookStats, circuitBreaker, sends>>

(***************************************************************************)
(* Connection manager (whatsapp.service.js)                                *)
(***************************************************************************)

\* the reason argument of a 'disconnected' notification, by class
Reasons == {"transient", "logged_out", "session_conflict"}

\* the reasons after which the session cannot come back by itself
TerminalReasons == {"logged_out", "session_conflict"}

Min(a, b) == IF a <= b THEN a ELSE b

\* mutant: the exponent is the attempt number less one
reconnectDelay_FromBase(n) == Min(backoffBase * backoffFactor ^ (n - 1), backoffCap)

\* Math.min(1000 * Math.pow(2, this.retryCount), 30000), n the incremented retryCount
reconnectDelay(n) == Min(backoffBase * backoffFactor ^ n, backoffCap)

\* getStatus()
getStatus ==
  [isReady |-> isReady, hasQR |-> qrCode, isAuthenticated |-> sessionData,
   retryCount |-> retryCount]

\* a client whose browser is up: the library delivers notifications of such a
\* client only, and closes the client after its 'disconnected'
Alive(c) == c \in DOMAIN clients /\ clients[c] \in {"starting", "open"}

\* initialize() up to its await: a new Client replaces this.client and gets the
\* handlers; the client it replaces is neither destroyed nor unsubscribed
initialize ==
  /\ Len(clients) < MaxClients
  /\ clients' = Append(clients, "starting")
  /\ client' = Len(clients) + 1

\* initialize() called from outside: server start, POST /initialize (which the
\* controller refuses when isReady), restart
Initialize ==
  /\ ~isReady
  /\ initialize
  /\ loggedOut' = FALSE
  /\ exhausted' = FALSE
  /\ lastEmit' = <<>>
  /\ UNCHANGED <<isReady, qrCode, sessionData, retryCount, reconnectTimers,
                 qrRenders, logoutOp>>

\* await this.client.initialize() throws: the client never comes up and
\* initialize() rethrows; the timer's callback catches and logs it, a caller from
\* outside gets the error. (When the await returns, initialize() only logs.)
InitializeThrows(c) ==
  /\ c \in DOMAIN clients /\ clients[c] = "starting"
  /\ clients' = [clients EXCEPT ![c] = "closed"]
  /\ lastEmit' = <<>>
  /\ UNCHANGED <<client, isReady, qrCode, sessionData, retryCount, reconnectTimers,
                 qrRenders, logoutOp, loggedOut, exhausted>>

\* client.on('qr') up to await qrcode.toDataURL(qr)
QrReceived(c) ==
  /\ Alive(c) /\ clients[c] = "starting"
  /\ qrRenders < MaxQrPending
  /\ qrRenders' = qrRenders + 1
  /\ lastEmit' = <<>>
  /\ UNCHANGED <<clients, client, isReady, qrCode, sessionData, retryCount,
                 reconnectTimers, logoutOp, loggedOut, exhausted>>

\* qrcode.toDataURL resolved: this.qrCode = ..., emit('qr')
QrRendered ==
  /\ qrRenders > 0
  /\ qrRenders' = qrRenders - 1
  /\ qrCode' = TRUE
  /\ lastEmit' = << "qr" >>
  /\ UNCHANGED <<clients, client, isReady, sessionData, retryCount,
                 reconnectTimers, logoutOp, loggedOut, exhausted>>

\* qrcode.toDataURL rejected: logged
QrRenderFails ==
  /\ qrRenders > 0
  /\ qrRenders' = qrRenders - 1
  /\ lastEmit' = <<>>
  /\ UNCHANGED <<clients, client, isReady, qrCode, sessionData, retryCount,
                 reconnectTimers, logoutOp, loggedOut, exhausted>>

\* mutant: the 'ready' handler leaves retryCount alone
readyRetryCount_Kept == retryCount

\* this.retryCount = 0 of the 'ready' handler
readyRetryCount == 0

\* client.on('ready')
Ready(c) ==
  /\ Alive(c) /\ clients[c] = "starting"
  /\ clients' = [clients EXCEPT ![c] = "open"]
  /\ isReady' = TRUE
  /\ qrCode' = FALSE
  /\ retryCount' = readyRetryCount
  /\ lastEmit' = << "ready" >>
  /\ UNCHANGED <<client, sessionData, reconnectTimers, qrRenders,
                 logoutOp, loggedOut, exhausted>>

\* client.on('authenticated')
Authenticated(c) ==
  /\ Alive(c) /\ clients[c] = "starting"
  /\ sessionData' = TRUE
  /\ lastEmit' = << "authenticated" >>
  /\ UNCHANGED <<clients, client, isReady, qrCode, retryCount, reconnectTimers,
                 qrRenders, logoutOp, loggedOut, exhausted>>

\* client.on('auth_failure')
AuthFailure(c) ==
  /\ Alive(c) /\ clients[c] = "starting"
  /\ isReady' = FALSE
  /\ lastEmit' = << "auth_failure" >>
  /\ UNCHANGED <<clients, client, qrCode, sessionData, retryCount, reconnectTimers,
                 qrRenders, logoutOp, loggedOut, exhausted>>

\* mutant: the budget is never found exhausted
RetriesExhausted_Never == FALSE

\* if (this.retryCount >= this.maxRetries) return
RetriesExhausted == retryCount >= waMaxRetries

\* client.on('disconnected') with _handleReconnection(), which runs to its end
\* inside the handler: it has no await. The reason is logged and emitted only.
Disconnected(c, reason) ==
  /\ Alive(c)
  /\ clients' = [clients EXCEPT ![c] = "closed"]
  /\ isReady' = FALSE
  /\ qrCode' = FALSE
  /\ lastEmit' = << "disconnected" >>
  /\ IF RetriesExhausted
       THEN /\ exhausted' = TRUE
            /\ UNCHANGED <<retryCount, reconnectTimers>>
       ELSE /\ retryCount' = retryCount + 1
            /\ reconnectTimers' = reconnectTimers (+)
                 SetToBag({[n |-> retryCount + 1,
                            delay |-> reconnectDelay(retryCount + 1)]})
            /\ UNCHANGED exhausted
  /\ UNCHANGED <<client, sessionData, qrRenders, logoutOp, loggedOut>>

\* the setTimeout callback of _handleReconnection: await this.initialize()
ReconnectFires(t) ==
  /\ BagIn(t, reconnectTimers)
  /\ reconnectTimers' = reconnectTimers (-) SetToBag({t})
  /\ initialize
  /\ lastEmit' = <<>>
  /\ UNCHANGED <<isReady, qrCode, sessionData, retryCount, qrRenders,
                 logoutOp, loggedOut, exhausted>>

\* logout() up to its first await; with no client it returns at once. One
\* logout() at a time is modelled.
LogoutCall ==
  /\ logoutOp.pc = "none"
  /\ IF client = 0
       THEN loggedOut' = TRUE /\ UNCHANGED logoutOp
       ELSE logoutOp' = [pc |-> "logout", c |-> client] /\ UNCHANGED loggedOut
  /\ lastEmit' = <<>>
  /\ UNCHANGED <<clients, client, isReady, qrCode, sessionData, retryCount,
                 reconnectTimers, qrRenders, exhausted>>

\* await this.client.logout() returns (the client's browser is up); this.client is
\* read again for destroy()
LogoutResolved ==
  /\ logoutOp.pc = "logout" /\ Alive(logoutOp.c)
  /\ logoutOp' = [pc |-> "destroy", c |-> client]
  /\ lastEmit' = <<>>
  /\ UNCHANGED <<clients, client, isReady, qrCode, sessionData, retryCount,
                 reconnectTimers, qrRenders, loggedOut, exhausted>>

\* await this.client.destroy() returns: the fields are cleared, logout() returns
DestroyResolved ==
  /\ logoutOp.pc = "destroy"
  /\ clients' = [clients EXCEPT ![logoutOp.c] = "closed"]
  /\ isReady' = FALSE
  /\ qrCode' = FALSE
  /\ sessionData' = FALSE
  /\ logoutOp' = [pc |-> "none", c |-> 0]
  /\ loggedOut' = TRUE
  /\ lastEmit' = <<>>
  /\ UNCHANGED <<client, retryCount, reconnectTimers, qrRenders, exhausted>>

\* client.logout() or client.destroy() throws: logout() throws 'Logout failed'
LogoutThrows ==
  /\ logoutOp.pc \in {"logout", "destroy"}
  /\ logoutOp' = [pc |-> "none", c |-> 0]
  /\ lastEmit' = <<>>
  /\ UNCHANGED <<clients, client, isReady, qrCode, sessionData, retryCount,
                 reconnectTimers, qrRenders, loggedOut, exhausted>>

(***************************************************************************)
(* QR store (qr.service.js)                                                *)
(***************************************************************************)

\* mutant: handleQR goes on whatever the lock says
LockBlocks_Never == FALSE

\* if (this.qrLocked) return
LockBlocks == qrLocked

\* handleQR(qr) up to its first await: skipped while locked, else lockQR() and
\* the call of qrcode.toDataURL. The tokens are numbered in the order accepted.
handleQR ==
  IF LockBlocks
    THEN /\ qrLast' = "skipped"
         /\ UNCHANGED <<qrBase64, qrFile, qrLocked, qrLockTime, qrOps, qrIssued,
                        unlockTimers, cleanupPc, cleared>>
    ELSE /\ qrIssued < MaxQrIssued
         /\ qrLocked' = TRUE
         /\ qrLockTime' = now
         /\ qrOps' = qrOps \cup {[tok |-> qrIssued + 1, pc |-> "render"]}
         /\ qrIssued' = qrIssued + 1
         /\ qrLast' = "accepted"
         /\ cleared' = "no"
         /\ UNCHANGED <<qrBase64, qrFile, unlockTimers, cleanupPc>>

\* mutant: the age of the lock is not looked at
unlockQR_AnyAge(force) ==
  qrLocked' = FALSE /\ qrLockTime' = Null

\* unlockQR(force): the lock fields as the call leaves them
unlockQR(force) ==
  IF force \/ qrLockTime = Null \/ now - qrLockTime > LOCK_TIMEOUT
    THEN qrLocked' = FALSE /\ qrLockTime' = Null
    ELSE UNCHANGED <<qrLocked, qrLockTime>>

\* await qrcode.toDataURL(qr) returns: this.qrBase64 = ..., then fs.writeFile is called
RenderDone(op) ==
  /\ op \in qrOps /\ op.pc = "render"
  /\ qrBase64' = op.tok
  /\ qrOps' = (qrOps \ {op}) \cup {[op EXCEPT !.pc = "write"]}
  /\ qrLast' = ""
  /\ UNCHANGED <<qrFile, qrLocked, qrLockTime, qrIssued, unlockTimers, cleanupPc, cleared>>

\* await fs.writeFile returns: the unlock timer is armed
WriteDone(op) ==
  /\ op \in qrOps /\ op.pc = "write"
  /\ qrFile' = op.tok
  /\ unlockTimers' = unlockTimers (+) SetToBag({now + LOCK_TIMEOUT})
  /\ qrOps' = qrOps \ {op}
  /\ qrLast' = ""
  /\ UNCHANGED <<qrBase64, qrLocked, qrLockTime, qrIssued, cleanupPc, cleared>>

\* toDataURL or writeFile throws: this.unlockQR(true)
HandleQRFails(op) ==
  /\ op \in qrOps
  /\ unlockQR(TRUE)
  /\ qrOps' = qrOps \ {op}
  /\ qrLast' = ""
  /\ UNCHANGED <<qrBase64, qrFile, qrIssued, unlockTimers, cleanupPc, cleared>>

\* the setTimeout callback: this.unlockQR()
UnlockTimer(due) ==
  /\ BagIn(due, unlockTimers) /\ now >= due
  /\ unlockTimers' = unlockTimers (-) SetToBag({due})
  /\ unlockQR(FALSE)
  /\ qrLast' = ""
  /\ UNCHANGED <<qrBase64, qrFile, qrOps, qrIssued, cleanupPc, cleared>>

\* cleanup() up to its first await: the memory is cleared, fs.access is called.
\* One cleanup() at a time is modelled.
CleanupCall ==
  /\ cleanupPc = "none"
  /\ qrBase64' = 0
  /\ qrLocked' = FALSE
  /\ qrLockTime' = Null
  /\ cleanupPc' = "access"
  /\ cleared' = "running"
  /\ qrLast' = ""
  /\ UNCHANGED <<qrFile, qrOps, qrIssued, unlockTimers>>

\* fs.access answered: unlink is called when the file exists, else cleanup() returns
CleanupAccess ==
  /\ cleanupPc = "access"
  /\ IF qrFile # 0
       THEN cleanupPc' = "unlink" /\ UNCHANGED cleared
       ELSE /\ cleanupPc' = "none"
            /\ cleared' = IF cleared = "running" THEN "done" ELSE cleared
  /\ qrLast' = ""
  /\ UNCHANGED <<qrBase64, qrFile, qrLocked, qrLockTime, qrOps, qrIssued, unlockTimers>>

\* fs.unlink answered (the file is gone, whichever call removed it): cleanup() returns
CleanupUnlink ==
  /\ cleanupPc = "unlink"
  /\ qrFile' = 0
  /\ cleanupPc' = "none"
  /\ cleared' = IF cleared = "running" THEN "done" ELSE cleared
  /\ qrLast' = ""
  /\ UNCHANGED <<qrBase64, qrLocked, qrLockTime, qrOps, qrIssued, unlockTimers>>

\* what getQR() finds: the memory first, then the file
QrAvailable == qrBase64 # 0 \/ qrFile # 0

(***************************************************************************)
(* HTTP API of the registry (webhook.controller.js, validateWebhookData)   *)
(***************************************************************************)

\* a field the JSON body does not carry
Undefined == "<undefined>"

\* an events value that is a string, not an array
StringEvents == {"<string>"}

\* an events field the body does not carry
NoEvents == {"<undefined>"}

\* a name or secret that is a number
NotAString == "<number>"

\* the list validEvents of validateWebhookData
validEvents ==
  {"message.received", "message.status", "qr.generated", "client.ready",
   "client.disconnected", "client.authenticated", "client.auth_failure"}

\* the url values tried: none, empty, relative, absolute with another scheme,
\* absolute https
UrlInputs == {Undefined, "", "hook", "ftp://host/hook", "https://host/hook"}

\* the events values tried: none, null, a string, empty, valid, unknown, mixed
EventsInputs ==
  {NoEvents, NullEvents, StringEvents, {}, {"client.ready"}, {"bogus.kind"},
   {"message.received", "bogus.kind", "other.kind"}}

\* !v of JavaScript for the url, name and secret values tried
Falsy(v) == v \in {Undefined, ""}

\* !events of JavaScript: an array, even empty, and a non-empty string are truthy
EventsFalsy(e) == e \in {NoEvents, NullEvents}

\* Array.isArray(events)
IsArray(e) == e \notin {NoEvents, NullEvents, StringEvents}

\* new URL(url) does not throw: the string is an absolute URL
UrlParses(u) == u \in {"ftp://host/hook", "https://host/hook", "https://other/hook"}

\* url.protocol
UrlProtocol(u) == IF u = "ftp://host/hook" THEN "ftp:" ELSE "https:"

Err(msg) == [msg |-> msg, items |-> {}]

\* the URL part of validateWebhookData
urlErrors(data) ==
  IF Falsy(data.url) THEN {Err("URL is required")}
  ELSE IF ~UrlParses(data.url) THEN {Err("Invalid URL format")}
  ELSE IF UrlProtocol(data.url) \notin {"http:", "https:"}
    THEN {Err("URL must use HTTP or HTTPS protocol")}
  ELSE {}

\* the events part of validateWebhookData
eventsErrors(data) ==
  IF EventsFalsy(data.events) \/ ~IsArray(data.events)
    THEN {Err("Events must be an array")}
  ELSE IF data.events = {} THEN {Err("At least one event must be specified")}
  ELSE IF data.events \ validEvents # {}
    THEN {[msg |-> "Invalid events", items |-> data.events \ validEvents]}
  ELSE {}

\* the name and secret parts of validateWebhookData
nameErrors(data) ==
  IF ~Falsy(data.name) /\ data.name = NotAString
    THEN {Err("Name must be a string")} ELSE {}

secretErrors(data) ==
  IF ~Falsy(data.secret) /\ data.secret = NotAString
    THEN {Err("Secret must be a string")} ELSE {}

\* mutant: validation stops at the first violation found
validateWebhookData_FirstOnly(data) ==
  IF urlErrors(data) # {} THEN urlErrors(data)
  ELSE IF eventsErrors(data) # {} THEN eventsErrors(data)
  ELSE IF nameErrors(data) # {} THEN nameErrors(data)
  ELSE secretErrors(data)

\* validateWebhookData(data).errors, as a set; valid iff it is empty
validateWebhookData(data) ==
  urlErrors(data) \cup eventsErrors(data) \cup nameErrors(data) \cup secretErrors(data)

\* the bodies of POST /api/webhooks tried: every url with every events value,
\* a name and a secret that are numbers on valid and invalid bodies, and a
\* body with every field wrong
RegisterBodies ==
  [url : UrlInputs, events : EventsInputs, name : {Undefined}, secret : {Undefined}]
    \cup [url : {"", "https://host/hook"}, events : {{}, {"client.ready"}},
          name : {Undefined, NotAString}, secret : {Undefined, NotAString}]
    \cup {[url |-> "ftp://host/hook",
           events |-> {"message.received", "bogus.kind", "other.kind"},
           name |-> NotAString, secret |-> NotAString]}

\* the checks of the service's registerWebhook, which throw
registerThrows(data) ==
  \/ Falsy(data.url) \/ EventsFalsy(data.events) \/ ~IsArray(data.events)
  \/ ~UrlParses(data.url)

\* WebhookController.registerWebhook: validation, then the service
RegisterRequest(body) ==
  LET errors == validateWebhookData(body)
  IN  IF errors # {}
        THEN /\ lastResponse' = [status |-> 400, errors |-> errors]
             /\ UNCHANGED pipeVars
      ELSE IF registerThrows(body)
        THEN /\ lastResponse' = [status |-> 500, errors |-> {}]
             /\ UNCHANGED pipeVars
      ELSE /\ registerWebhook(body.events)
           /\ lastResponse' = [status |-> 201, errors |-> {}]

\* the bodies of PUT /api/webhooks/:webhookId tried: one field each, and an
\* empty url together with events
UpdateBodies ==
  {[isActive |-> FALSE], [secret |-> "s2"],
   [successCount |-> 7], [failureCount |-> 7], [id |-> 99], [createdAt |-> "forged"]}
    \cup {[url |-> u] : u \in {"", "hook", "ftp://host/hook", "https://other/hook"}}
    \cup {[events |-> e] : e \in EventsInputs \ {NoEvents}}
    \cup {[url |-> "", events |-> e] : e \in {{"client.ready"}, {"bogus.kind"}}}

\* updates.url, updates.events of a body that may not carry them
BodyUrl(updates) == IF "url" \in DOMAIN updates THEN updates.url ELSE Undefined
BodyEvents(updates) == IF "events" \in DOMAIN updates THEN updates.events ELSE NoEvents

\* if (updates.url || updates.events)
updateValidated(updates) ==
  ~Falsy(BodyUrl(updates)) \/ ~EventsFalsy(BodyEvents(updates))

\* the data the controller hands to validateWebhookData for an update
updateValidationData(updates) ==
  [url |-> IF Falsy(BodyUrl(updates)) THEN "https://host/hook" ELSE BodyUrl(updates),
   events |-> IF EventsFalsy(BodyEvents(updates))
                THEN {"message.received"} ELSE BodyEvents(updates),
   name |-> Undefined, secret |-> Undefined]

\* WebhookController.updateWebhook for a known id: validation when url or events
\* is truthy, then the service (which checks a truthy url with new URL)
UpdateRequest(i, updates) ==
  LET errors == IF updateValidated(updates)
                  THEN validateWebhookData(updateValidationData(updates)) ELSE {}
  IN  /\ i \in DOMAIN webhooks
      /\ IF errors # {}
           THEN /\ lastResponse' = [status |-> 400, errors |-> errors]
                /\ UNCHANGED pipeVars
         ELSE IF ~Falsy(BodyUrl(updates)) /\ ~UrlParses(BodyUrl(updates))
           THEN /\ lastResponse' = [status |-> 500, errors |-> {}]
                /\ UNCHANGED pipeVars
         ELSE /\ updateWebhook(i, updates)
              /\ lastResponse' = [status |-> 200, errors |-> {}]

\* WebhookController.deleteWebhook for a known id
DeleteRequest(i) ==
  /\ deleteWebhook(i)
  /\ lastResponse' = [status |-> 200, errors |-> {}]

\* the keys of this.webhooks
Ids == {webhooks[j].id : j \in DOMAIN webhooks}

\* the webhookId values tried by requests: every id that can be generated
IdInputs == 1..MaxHooks

\* mutant: a missing id is not noticed
NotFoundThrown_Never(id) == FALSE

\* if (!webhook) / if (!this.webhooks.has(webhookId)): throw 'Webhook not found'
NotFoundThrown(id) == id \notin Ids

\* WebhookController.updateWebhook for an id the Map does not hold: the body is
\* validated first, then the service throws and the catch answers 500 with the
\* message; without the throw the spread of undefined would be stored
UpdateRequestUnknown(id, updates) ==
  LET errors == IF updateValidated(updates)
                  THEN validateWebhookData(updateValidationData(updates)) ELSE {}
  IN  /\ id \notin Ids
      /\ IF errors # {}
           THEN /\ lastResponse' = [status |-> 400, errors |-> errors]
                /\ UNCHANGED pipeVars
         ELSE IF NotFoundThrown(id)
           THEN /\ lastResponse' =
                     [status |-> 500,
                      errors |-> {Err("Update webhook failed: Webhook not found")}]
                /\ UNCHANGED pipeVars
         ELSE /\ Len(heap) < MaxObjs
              /\ heap' = Append(heap, updates)
              /\ webhooks' = Append(webhooks, [id |-> id, ref |-> Len(heap) + 1])
              /\ lastResponse' = [status |-> 200, errors |-> {}]
              /\ UNCHANGED <<nextId, eventQueue, isProcessing, loops, timers, awaiting,
                             published, hist>>

\* WebhookController.deleteWebhook for an id the Map does not hold: the service
\* throws and the catch answers 500 with the message
DeleteRequestUnknown(id) ==
  /\ id \notin Ids
  /\ lastResponse' =
       IF NotFoundThrown(id)
         THEN [status |-> 500,
               errors |-> {Err("Delete webhook failed: Webhook not found")}]
         ELSE [status |-> 200, errors |-> {}]
  /\ UNCHANGED pipeVars

(***************************************************************************)
(* Test delivery (webhook.service.js, testWebhook)                         *)
(***************************************************************************)

\* mutant: the result of a test is counted like a delivery
testCounted_Yes == TRUE

\* testWebhook returns the result of _sendWebhook, or rethrows its error,
\* without touching successCount or failureCount
testCounted == FALSE

\* testWebhook(webhookId) for a known id, up to its await: the POST of
\* _sendWebhook is issued for the object the Map holds
TestCall(i) ==
  /\ i \in DOMAIN webhooks
  /\ tests.calls < MaxTests
  /\ tests' = [calls |-> tests.calls + 1, posts |-> tests.posts + 1,
               pending |-> Append(tests.pending, webhooks[i].ref), last |-> ""]
  /\ UNCHANGED pipeVars

\* the sequence without its k-th element
Without(seq, k) ==
  [j \in 1..(Len(seq) - 1) |-> IF j < k THEN seq[j] ELSE seq[j + 1]]

\* the POST of a test returns with a 2xx: testWebhook returns { success: true }
TestOk(k) ==
  /\ k \in DOMAIN tests.pending
  /\ tests' = [tests EXCEPT !.pending = Without(tests.pending, k), !.last = "ok"]
  /\ heap' = IF testCounted
               THEN [heap EXCEPT ![tests.pending[k]].successCount = @ + 1] ELSE heap
  /\ UNCHANGED <<webhooks, nextId, eventQueue, isProcessing, loops, timers, awaiting,
                 published, hist>>

\* the POST of a test fails: testWebhook throws 'Webhook test failed: ...'
TestFail(k) ==
  /\ k \in DOMAIN tests.pending
  /\ tests' = [tests EXCEPT !.pending = Without(tests.pending, k), !.last = "failed"]
  /\ heap' = IF testCounted
               THEN [heap EXCEPT ![tests.pending[k]].failureCount = @ + 1] ELSE heap
  /\ UNCHANGED <<webhooks, nextId, eventQueue, isProcessing, loops, timers, awaiting,
                 published, hist>>

(***************************************************************************)
(* The connection manager's events published to the pipeline               *)
(* (webhook.service.js, _setupListeners)                                   *)
(***************************************************************************)

\* whatsappService.on('ready', ...): emit() runs the listener inside the 'ready'
\* handler, and the listener runs _triggerWebhook up to its return
ReadyPublishes(c) == Ready(c) /\ triggerWebhook("client.ready")

\* whatsappService.on('disconnected', ...): the listener runs inside the
\* 'disconnected' handler, before _handleReconnection()
DisconnectedPublishes(c, reason) ==
  Disconnected(c, reason) /\ triggerWebhook("client.disconnected")

\* mutant: the rejection of _sendWebhook leaves _processQueue
DeliveryErrorCaught_No == FALSE

\* the try/catch of _processQueue around the await of _sendWebhook
DeliveryErrorCaught == TRUE

\* a failed POST seen from the process: caught inside _processQueue, it stays in
\* the pipeline; uncaught, the promise of the un-awaited _processQueue() would
\* reject and the unhandledRejection handler of server.js would exit the
\* process, connection included
SendFailIsolated(l) ==
  /\ SendFail(l)
  /\ IF DeliveryErrorCaught
       THEN UNCHANGED waVars
       ELSE /\ isReady' = FALSE
            /\ client' = 0
            /\ retryCount' = 0
            /\ reconnectTimers' = EmptyBag
            /\ UNCHANGED <<clients, qrCode, sessionData, qrRenders, logoutOp, lastEmit,
                           loggedOut, exhausted>>

\* clearQueue() with its history: every task created so far predates the call
ClearQueueCall ==
  /\ clearQueue
  /\ clearedUpTo' = Len(hist)

(***************************************************************************)
(* Scheduled messages (message.service.js)                                 *)
(***************************************************************************)

\* this.messageQueue.filter(m => m.status === 'pending' && new Date(m.scheduledAt) <= now)
pendingMessages(q, ms) ==
  LET Test(id) == ms[id].status = "pending" /\ ms[id].due
  IN  SelectSeq(q, Test)

\* the for loop of _processQueue reaches msg: msg.status = 'processing' and
\* this.sendMessage(...) is called and awaited
ForStart(q, ms, batch, others, flag) ==
  /\ messages' = [ms EXCEPT ![Head(batch)].status = "processing",
                            ![Head(batch)].handed = @ + 1]
  /\ messageQueue' = q
  /\ isProcessingQueue' = flag
  /\ msgLoops' = Append(others, [pc |-> "send", cur |-> Head(batch), rest |-> Tail(batch)])

\* the while condition of _processQueue and what follows it up to the next
\* await: the exit with isProcessingQueue = false when the queue is empty, the
\* 5 s delay when no message is due, or the first send of the batch
WhileTop(q, ms, others, flag) ==
  IF Len(q) = 0
    THEN /\ isProcessingQueue' = FALSE
         /\ msgLoops' = others
         /\ messageQueue' = q
         /\ messages' = ms
  ELSE IF pendingMessages(q, ms) = <<>>
    THEN /\ msgLoops' = Append(others, [pc |-> "poll", cur |-> 0, rest |-> <<>>])
         /\ isProcessingQueue' = flag
         /\ messageQueue' = q
         /\ messages' = ms
  ELSE ForStart(q, ms, pendingMessages(q, ms), others, flag)

\* the next iteration of the for loop over the batch, or back to the while
ForNext(q, ms, batch, others, flag) ==
  IF batch = <<>> THEN WhileTop(q, ms, others, flag)
  ELSE ForStart(q, ms, batch, others, flag)

\* mutant: a loop is started whatever isProcessingQueue says
ShouldStartMsgLoop_Always == TRUE

\* if (!this.isProcessingQueue) this._processQueue()
ShouldStartMsgLoop == ~isProcessingQueue

\* scheduleMessage(data) with valid data and a time in the future: the item is
\* pushed; when no loop is running _processQueue() is called, not awaited, and
\* runs to its first await
scheduleMessage ==
  LET id == Len(messages) + 1
      q  == Append(messageQueue, id)
      ms == Append(messages, [status |-> "pending", due |-> FALSE, handed |-> 0])
  IN  /\ Len(messages) < MaxMsgs
      /\ IF ShouldStartMsgLoop
           THEN WhileTop(q, ms, msgLoops, TRUE)
           ELSE /\ messageQueue' = q
                /\ messages' = ms
                /\ UNCHANGED <<isProcessingQueue, msgLoops>>

\* time passes: the scheduledAt of a message is reached
BecomesDue(id) ==
  /\ id \in DOMAIN messages /\ ~messages[id].due
  /\ messages' = [messages EXCEPT ![id].due = TRUE]
  /\ UNCHANGED <<messageQueue, isProcessingQueue, msgLoops>>

\* await this._delay(5000) returns: continue
PollDone(k) ==
  /\ k \in DOMAIN msgLoops /\ msgLoops[k].pc = "poll"
  /\ WhileTop(messageQueue, messages, Without(msgLoops, k), isProcessingQueue)

\* this.messageQueue.filter(m => m.id !== id)
RemoveFromQueue(q, id) ==
  LET Keep(x) == x # id IN SelectSeq(q, Keep)

\* await this.sendMessage(...) returns: the message is filtered out of the
\* queue and the for loop goes on
MsgSendOk(k) ==
  /\ k \in DOMAIN msgLoops /\ msgLoops[k].pc = "send"
  /\ ForNext(RemoveFromQueue(messageQueue, msgLoops[k].cur), messages,
             msgLoops[k].rest, Without(msgLoops, k), isProcessingQueue)

\* await this.sendMessage(...) throws: msg.status = 'failed'; the message stays
\* in the queue and the for loop goes on
MsgSendFail(k) ==
  /\ k \in DOMAIN msgLoops /\ msgLoops[k].pc = "send"
  /\ ForNext(messageQueue, [messages EXCEPT ![msgLoops[k].cur].status = "failed"],
             msgLoops[k].rest, Without(msgLoops, k), isProcessingQueue)

\* clearQueue() of the message service: this.messageQueue = []
msgClearQueue ==
  /\ Len(messageQueue) > 0
  /\ messageQueue' = <<>>
  /\ UNCHANGED <<messages, isProcessingQueue, msgLoops>>

(***************************************************************************)
(* Specification of the pipeline                                           *)
(***************************************************************************)

Init ==
  /\ heap = <<>>
  /\ webhooks = <<>>
  /\ nextId = 1
  /\ eventQueue = <<>>
  /\ isProcessing = FALSE
  /\ loops = {}
  /\ timers = {}
  /\ awaiting = 0
  /\ published = 0
  /\ hist = <<>>
  /\ circuitBreaker = [failures |-> 0, isOpen |-> FALSE, lastOpened |-> Null]
  /\ webhookStats = [totalRequests |-> 0, successfulRequests |-> 0, failedRequests |-> 0]
  /\ sends = [s \in 1..MaxSends |-> [pc |-> "idle", retries |-> 0]]
  /\ now = 0
  /\ clients = <<>>
  /\ client = 0
  /\ isReady = FALSE
  /\ qrCode = FALSE
  /\ sessionData = FALSE
  /\ retryCount = 0
  /\ reconnectTimers = EmptyBag
  /\ qrRenders = 0
  /\ logoutOp = [pc |-> "none", c |-> 0]
  /\ lastEmit = <<>>
  /\ loggedOut = FALSE
  /\ exhausted = FALSE
  /\ qrBase64 = 0
  /\ qrFile = 0
  /\ qrLocked = FALSE
  /\ qrLockTime = Null
  /\ qrOps = {}
  /\ qrIssued = 0
  /\ unlockTimers = EmptyBag
  /\ cleanupPc = "none"
  /\ qrLast = ""
  /\ cleared = "no"
  /\ lastResponse = [status |-> 0, errors |-> {}]
  /\ tests = [calls |-> 0, posts |-> 0, pending |-> <<>>, last |-> ""]
  /\ clearedUpTo = 0
  /\ messageQueue = <<>>
  /\ messages = <<>>
  /\ isProcessingQueue = FALSE
  /\ msgLoops = <<>>

Next ==
  \/ \E events \in RegisterInputs : registerWebhook(events) /\ UNCHANGED <<sendVars, waVars, qrVars, lastResponse, tests, clearedUpTo, msgVars>>
  \/ \E i \in DOMAIN webhooks, u \in UpdateInputs : updateWebhook(i, u) /\ UNCHANGED <<sendVars, waVars, qrVars, lastResponse, tests, clearedUpTo, msgVars>>
  \/ \E i \in DOMAIN webhooks : deleteWebhook(i) /\ UNCHANGED <<sendVars, waVars, qrVars, lastResponse, tests, clearedUpTo, msgVars>>
  \/ \E k \in EventKinds : triggerWebhook(k) /\ UNCHANGED <<sendVars, waVars, qrVars, lastResponse, tests, clearedUpTo, msgVars>>
  \/ \E l \in loops : SendOk(l) /\ UNCHANGED <<sendVars, waVars, qrVars, lastResponse, tests, clearedUpTo, msgVars>>
  \/ \E l \in loops : SendFail(l) /\ UNCHANGED <<sendVars, waVars, qrVars, lastResponse, tests, clearedUpTo, msgVars>>
  \/ \E l \in loops : DelayDone(l) /\ UNCHANGED <<sendVars, waVars, qrVars, lastResponse, tests, clearedUpTo, msgVars>>
  \/ \E t \in timers : RetryTimer(t) /\ UNCHANGED <<sendVars, waVars, qrVars, lastResponse, tests, clearedUpTo, msgVars>>
  \/ clearQueue /\ UNCHANGED <<sendVars, waVars, qrVars, lastResponse, tests, clearedUpTo, msgVars>>

Spec == Init /\ [][Next]_vars

(***************************************************************************)
(* Specification of the circuit-broken sender                              *)
(***************************************************************************)

SendNext ==
  \/ \E s \in 1..MaxSends : send(s) /\ UNCHANGED <<pipeVars, waVars, qrVars, lastResponse, tests, clearedUpTo, msgVars>>
  \/ \E s \in 1..MaxSends : AttemptOk(s) /\ UNCHANGED <<pipeVars, waVars, qrVars, lastResponse, tests, clearedUpTo, msgVars>>
  \/ \E s \in 1..MaxSends : AttemptFail(s) /\ UNCHANGED <<pipeVars, waVars, qrVars, lastResponse, tests, clearedUpTo, msgVars>>
  \/ \E s \in 1..MaxSends : RetryRequest(s) /\ UNCHANGED <<pipeVars, waVars, qrVars, lastResponse, tests, clearedUpTo, msgVars>>
  \/ Tick /\ UNCHANGED <<pipeVars, waVars, qrVars, lastResponse, tests, clearedUpTo, msgVars>>

SendSpec == Init /\ [][SendNext]_vars

(***************************************************************************)
(* Specification of the connection manager                                 *)
(***************************************************************************)

WaNext ==
  \/ Initialize /\ UNCHANGED <<pipeVars, sendVars, qrVars, lastResponse, tests, clearedUpTo, msgVars>>
  \/ \E c \in DOMAIN clients : InitializeThrows(c) /\ UNCHANGED <<pipeVars, sendVars, qrVars, lastResponse, tests, clearedUpTo, msgVars>>
  \/ \E c \in DOMAIN clients : QrReceived(c) /\ UNCHANGED <<pipeVars, sendVars, qrVars, lastResponse, tests, clearedUpTo, msgVars>>
  \/ QrRendered /\ UNCHANGED <<pipeVars, sendVars, qrVars, lastResponse, tests, clearedUpTo, msgVars>>
  \/ QrRenderFails /\ UNCHANGED <<pipeVars, sendVars, qrVars, lastResponse, tests, clearedUpTo, msgVars>>
  \/ \E c \in DOMAIN clients : Ready(c) /\ UNCHANGED <<pipeVars, sendVars, qrVars, lastResponse, tests, clearedUpTo, msgVars>>
  \/ \E c \in DOMAIN clients : Authenticated(c) /\ UNCHANGED <<pipeVars, sendVars, qrVars, lastResponse, tests, clearedUpTo, msgVars>>
  \/ \E c \in DOMAIN clients : AuthFailure(c) /\ UNCHANGED <<pipeVars, sendVars, qrVars, lastResponse, tests, clearedUpTo, msgVars>>
  \/ \E c \in DOMAIN clients, reason \in Reasons :
       Disconnected(c, reason) /\ UNCHANGED <<pipeVars, sendVars, qrVars, lastResponse, tests, clearedUpTo, msgVars>>
  \/ \E t \in BagToSet(reconnectTimers) : ReconnectFires(t) /\ UNCHANGED <<pipeVars, sendVars, qrVars, lastResponse, tests, clearedUpTo, msgVars>>
  \/ LogoutCall /\ UNCHANGED <<pipeVars, sendVars, qrVars, lastResponse, tests, clearedUpTo, msgVars>>
  \/ LogoutResolved /\ UNCHANGED <<pipeVars, sendVars, qrVars, lastResponse, tests, clearedUpTo, msgVars>>
  \/ DestroyResolved /\ UNCHANGED <<pipeVars, sendVars, qrVars, lastResponse, tests, clearedUpTo, msgVars>>
  \/ LogoutThrows /\ UNCHANGED <<pipeVars, sendVars, qrVars, lastResponse, tests, clearedUpTo, msgVars>>

WaSpec == Init /\ [][WaNext]_vars

(***************************************************************************)
(* Specification of the QR store                                           *)
(***************************************************************************)

QrNext ==
  \/ handleQR /\ UNCHANGED <<pipeVars, sendVars, waVars, lastResponse, tests, clearedUpTo, msgVars>>
  \/ \E op \in qrOps : RenderDone(op) /\ UNCHANGED <<pipeVars, sendVars, waVars, lastResponse, tests, clearedUpTo, msgVars>>
  \/ \E op \in qrOps : WriteDone(op) /\ UNCHANGED <<pipeVars, sendVars, waVars, lastResponse, tests, clearedUpTo, msgVars>>
  \/ \E op \in qrOps : HandleQRFails(op) /\ UNCHANGED <<pipeVars, sendVars, waVars, lastResponse, tests, clearedUpTo, msgVars>>
  \/ \E due \in BagToSet(unlockTimers) : UnlockTimer(due) /\ UNCHANGED <<pipeVars, sendVars, waVars, lastResponse, tests, clearedUpTo, msgVars>>
  \/ CleanupCall /\ UNCHANGED <<pipeVars, sendVars, waVars, lastResponse, tests, clearedUpTo, msgVars>>
  \/ CleanupAccess /\ UNCHANGED <<pipeVars, sendVars, waVars, lastResponse, tests, clearedUpTo, msgVars>>
  \/ CleanupUnlink /\ UNCHANGED <<pipeVars, sendVars, waVars, lastResponse, tests, clearedUpTo, msgVars>>
  \/ Tick /\ UNCHANGED <<pipeVars, waVars, qrVars, lastResponse, tests, clearedUpTo, msgVars>>

QrSpec == Init /\ [][QrNext]_vars

(***************************************************************************)
(* Specification of the registry's HTTP API                                *)
(***************************************************************************)

ApiNext ==
  \/ \E body \in RegisterBodies : RegisterRequest(body) /\ UNCHANGED <<sendVars, waVars, qrVars, tests, clearedUpTo, msgVars>>
  \/ \E i \in DOMAIN webhooks, updates \in UpdateBodies :
       UpdateRequest(i, updates) /\ UNCHANGED <<sendVars, waVars, qrVars, tests, clearedUpTo, msgVars>>
  \/ \E i \in DOMAIN webhooks : DeleteRequest(i) /\ UNCHANGED <<sendVars, waVars, qrVars, tests, clearedUpTo, msgVars>>
  \/ \E id \in IdInputs, updates \in UpdateBodies :
       UpdateRequestUnknown(id, updates) /\ UNCHANGED <<sendVars, waVars, qrVars, tests, clearedUpTo, msgVars>>
  \/ \E id \in IdInputs : DeleteRequestUnknown(id) /\ UNCHANGED <<sendVars, waVars, qrVars, tests, clearedUpTo, msgVars>>

ApiSpec == Init /\ [][ApiNext]_vars

(***************************************************************************)
(* Specification of test deliveries beside the pipeline                    *)
(***************************************************************************)

TestNext ==
  \/ \E events \in RegisterInputs : registerWebhook(events) /\ UNCHANGED <<sendVars, waVars, qrVars, lastResponse, tests, clearedUpTo, msgVars>>
  \/ \E k \in EventKinds : triggerWebhook(k) /\ UNCHANGED <<sendVars, waVars, qrVars, lastResponse, tests, clearedUpTo, msgVars>>
  \/ \E l \in loops : SendOk(l) /\ UNCHANGED <<sendVars, waVars, qrVars, lastResponse, tests, clearedUpTo, msgVars>>
  \/ \E l \in loops : SendFail(l) /\ UNCHANGED <<sendVars, waVars, qrVars, lastResponse, tests, clearedUpTo, msgVars>>
  \/ \E l \in loops : DelayDone(l) /\ UNCHANGED <<sendVars, waVars, qrVars, lastResponse, tests, clearedUpTo, msgVars>>
  \/ \E t \in timers : RetryTimer(t) /\ UNCHANGED <<sendVars, waVars, qrVars, lastResponse, tests, clearedUpTo, msgVars>>
  \/ \E i \in DOMAIN webhooks : TestCall(i) /\ UNCHANGED <<sendVars, waVars, qrVars, lastResponse, clearedUpTo, msgVars>>
  \/ \E k \in DOMAIN tests.pending : TestOk(k) /\ UNCHANGED <<sendVars, waVars, qrVars, lastResponse, clearedUpTo, msgVars>>
  \/ \E k \in DOMAIN tests.pending : TestFail(k) /\ UNCHANGED <<sendVars, waVars, qrVars, lastResponse, clearedUpTo, msgVars>>

TestSpec == Init /\ [][TestNext]_vars

(***************************************************************************)
(* Specification of the connection manager feeding the pipeline            *)
(***************************************************************************)

IsoNext ==
  \/ \E events \in RegisterInputs : registerWebhook(events) /\ UNCHANGED <<sendVars, waVars, qrVars, lastResponse, tests, clearedUpTo, msgVars>>
  \/ Initialize /\ UNCHANGED <<pipeVars, sendVars, qrVars, lastResponse, tests, clearedUpTo, msgVars>>
  \/ \E c \in DOMAIN clients : ReadyPublishes(c) /\ UNCHANGED <<sendVars, qrVars, lastResponse, tests, clearedUpTo, msgVars>>
  \/ \E c \in DOMAIN clients, reason \in Reasons :
       DisconnectedPublishes(c, reason) /\ UNCHANGED <<sendVars, qrVars, lastResponse, tests, clearedUpTo, msgVars>>
  \/ \E t \in BagToSet(reconnectTimers) : ReconnectFires(t) /\ UNCHANGED <<pipeVars, sendVars, qrVars, lastResponse, tests, clearedUpTo, msgVars>>
  \/ \E l \in loops : SendOk(l) /\ UNCHANGED <<sendVars, waVars, qrVars, lastResponse, tests, clearedUpTo, msgVars>>
  \/ \E l \in loops : SendFailIsolated(l) /\ UNCHANGED <<sendVars, qrVars, lastResponse, tests, clearedUpTo, msgVars>>
  \/ \E l \in loops : DelayDone(l) /\ UNCHANGED <<sendVars, waVars, qrVars, lastResponse, tests, clearedUpTo, msgVars>>
  \/ \E t \in timers : RetryTimer(t) /\ UNCHANGED <<sendVars, waVars, qrVars, lastResponse, tests, clearedUpTo, msgVars>>

IsoSpec == Init /\ [][IsoNext]_vars

(***************************************************************************)
(* Specification of the pipeline with clearQueue() remembered              *)
(***************************************************************************)

ClearNext ==
  \/ \E events \in RegisterInputs : registerWebhook(events) /\ UNCHANGED <<sendVars, waVars, qrVars, lastResponse, tests, clearedUpTo, msgVars>>
  \/ \E k \in EventKinds : triggerWebhook(k) /\ UNCHANGED <<sendVars, waVars, qrVars, lastResponse, tests, clearedUpTo, msgVars>>
  \/ \E l \in loops : SendOk(l) /\ UNCHANGED <<sendVars, waVars, qrVars, lastResponse, tests, clearedUpTo, msgVars>>
  \/ \E l \in loops : SendFail(l) /\ UNCHANGED <<sendVars, waVars, qrVars, lastResponse, tests, clearedUpTo, msgVars>>
  \/ \E l \in loops : DelayDone(l) /\ UNCHANGED <<sendVars, waVars, qrVars, lastResponse, tests, clearedUpTo, msgVars>>
  \/ \E t \in timers : RetryTimer(t) /\ UNCHANGED <<sendVars, waVars, qrVars, lastResponse, tests, clearedUpTo, msgVars>>
  \/ ClearQueueCall /\ UNCHANGED <<sendVars, waVars, qrVars, lastResponse, tests, msgVars>>

ClearSpec == Init /\ [][ClearNext]_vars

(***************************************************************************)
(* Specification of the scheduled messages                                 *)
(***************************************************************************)

MsgNext ==
  \/ scheduleMessage /\ UNCHANGED <<pipeVars, sendVars, waVars, qrVars, lastResponse, tests, clearedUpTo>>
  \/ \E id \in DOMAIN messages : BecomesDue(id) /\ UNCHANGED <<pipeVars, sendVars, waVars, qrVars, lastResponse, tests, clearedUpTo>>
  \/ \E k \in DOMAIN msgLoops : PollDone(k) /\ UNCHANGED <<pipeVars, sendVars, waVars, qrVars, lastResponse, tests, clearedUpTo>>
  \/ \E k \in DOMAIN msgLoops : MsgSendOk(k) /\ UNCHANGED <<pipeVars, sendVars, waVars, qrVars, lastResponse, tests, clearedUpTo>>
  \/ \E k \in DOMAIN msgLoops : MsgSendFail(k) /\ UNCHANGED <<pipeVars, sendVars, waVars, qrVars, lastResponse, tests, clearedUpTo>>
  \/ msgClearQueue /\ UNCHANGED <<pipeVars, sendVars, waVars, qrVars, lastResponse, tests, clearedUpTo>>

MsgSpec == Init /\ [][MsgNext]_vars

\* the loop's awaits return: the delay of 5 s and the send of a message
MsgFairSpec ==
  /\ MsgSpec
  /\ WF_vars(\E k \in DOMAIN msgLoops : PollDone(k) /\ UNCHANGED <<pipeVars, sendVars, waVars, qrVars, lastResponse, tests, clearedUpTo>>)
  /\ WF_vars(\E k \in DOMAIN msgLoops : (MsgSendOk(k) \/ MsgSendFail(k)) /\ UNCHANGED <<pipeVars, sendVars, waVars, qrVars, lastResponse, tests, clearedUpTo>>)
  /\ WF_vars(\E id \in DOMAIN messages : BecomesDue(id) /\ UNCHANGED <<pipeVars, sendVars, waVars, qrVars, lastResponse, tests, clearedUpTo>>)

(***************************************************************************)
(* Fairness: every HTTP call returns, every timer fires. Publishing and the *)
(* registry calls are the environment's and are not forced.                 *)
(***************************************************************************)

HttpReturns == \E l \in loops : (SendOk(l) \/ SendFail(l)) /\ UNCHANGED <<sendVars, waVars, qrVars, lastResponse, tests, clearedUpTo, msgVars>>
DelayReturns == \E l \in loops : DelayDone(l) /\ UNCHANGED <<sendVars, waVars, qrVars, lastResponse, tests, clearedUpTo, msgVars>>
TimerFires == \E t \in timers : RetryTimer(t) /\ UNCHANGED <<sendVars, waVars, qrVars, lastResponse, tests, clearedUpTo, msgVars>>

FairSpec ==
  /\ Init /\ [][Next]_vars
  /\ WF_vars(HttpReturns) /\ WF_vars(DelayReturns) /\ WF_vars(TimerFires)

(***************************************************************************)
(* Properties of the pipeline                                              *)
(***************************************************************************)

Queued(t) == \E i \in DOMAIN eventQueue : eventQueue[i].tid = t
Scheduled(t) == \E x \in timers : x.item.tid = t
InFlight(t) == \E l \in loops : l.pc = "http" /\ l.item.tid = t

TaskPending(t) == IF t \in DOMAIN hist THEN hist[t].status = "pending" ELSE FALSE
TaskDestroyed(t) == IF t \in DOMAIN hist THEN hist[t].status # "pending" ELSE FALSE

\* C1: every delivery task that is enqueued is eventually destroyed (delivered,
\* or dropped after its retries), even if no further event is published.
C1_EveryTaskDestroyed ==
  \A t \in 1..MaxTasks : TaskPending(t) ~> TaskDestroyed(t)

\* C2: the items a publication appends (the one the freshly started loop has
\* already shifted included) are exactly one per registered webhook that is
\* active and subscribed to the event type: none missing, none extra, none twice.
C2_FanOutExact ==
  [][\A k \in EventKinds :
       triggerWebhook(k) =>
         LET expected == {w.ref : w \in {x \in Range(webhooks) :
                             /\ heap[x.ref].isActive
                             /\ heap[x.ref].events # NullEvents
                             /\ k \in heap[x.ref].events}}
             added == {x \in Range(eventQueue') \cup {l.item : l \in loops'} :
                         x.tid > Len(hist)}
         IN  /\ {x.webhook : x \in added} = expected
             /\ Cardinality(added) = Cardinality(expected)
             /\ Len(hist') = Len(hist) + Cardinality(expected)
             /\ \A x \in added : x.retries = 0]_vars

\* C3: a webhook's failureCount changes only in the step that drops a task, and
\* then by one: once per task whose attempts all fail, not once per attempt.
C3_FailureCountOncePerTask ==
  [][\A r \in DOMAIN heap :
       heap'[r].failureCount # heap[r].failureCount =>
         /\ heap'[r].failureCount = heap[r].failureCount + 1
         /\ \E t \in DOMAIN hist :
              hist[t].status = "pending" /\ hist'[t].status = "dropped"]_vars

\* C4 as stated: with maxRetries = 3 a task is POSTed at most 3 times, and after
\* its third failure it is neither queued nor scheduled for re-enqueue.
C4_AtMostMaxRetriesPosts ==
  \A t \in DOMAIN hist :
    /\ hist[t].posts <= maxRetries
    /\ hist[t].fails >= maxRetries => ~Queued(t) /\ ~Scheduled(t)

\* C4 amended: a task is POSTed at most maxRetries + 1 = 4 times (the first attempt
\* and maxRetries retries); after its fourth failure it is dropped, neither queued
\* nor scheduled for re-enqueue.
C4_AtMostOnePlusMaxRetriesPosts ==
  \A t \in DOMAIN hist :
    /\ hist[t].posts <= maxRetries + 1
    /\ hist[t].fails >= maxRetries + 1 =>
         /\ hist[t].status = "dropped"
         /\ ~Queued(t) /\ ~Scheduled(t) /\ ~InFlight(t)

\* C4 witness: a task has failed four times and is dropped
C4_Witness ==
  \E t \in DOMAIN hist :
    /\ hist[t].posts = maxRetries + 1 /\ hist[t].fails = maxRetries + 1
    /\ hist[t].status = "dropped"

\* C5: of two tasks of the same subscriber, the later published one is never
\* delivered while the earlier one is still neither delivered nor dropped.
C5_PerSubscriberOrder ==
  \A a \in DOMAIN hist : \A b \in DOMAIN hist :
    (a < b /\ hist[a].hook = hist[b].hook /\ hist[b].status = "delivered")
      => hist[a].status # "pending"

\* C6: at most one drain loop runs, hence at most one delivery is in flight, and
\* isProcessing says whether it runs.
C6_SingleDrainLoop ==
  /\ Cardinality(loops) <= 1
  /\ Cardinality({l \in loops : l.pc = "http"}) <= 1
  /\ isProcessing <=> loops # {}

\* C6 witness: an event of the same subscriber was published while the loop was
\* in its inter-delivery delay
C6_Witness ==
  \E l \in loops :
    /\ l.pc = "delay"
    /\ \E i \in DOMAIN eventQueue :
         /\ eventQueue[i].tid > l.item.tid /\ eventQueue[i].retries = 0
         /\ hist[eventQueue[i].tid].hook = hist[l.item.tid].hook

\* C7: no _triggerWebhook call is still waiting while a delivery awaits its HTTP
\* response (or at any other time): the call returns after enqueueing.
C7_PublishReturns ==
  awaiting = 0

\* C7 witness: the first POST is still unanswered and a later event of the same
\* subscriber has been published and enqueued meanwhile
C7_Witness ==
  /\ InFlight(1) /\ hist[1].posts = 1 /\ hist[1].fails = 0
  /\ \E i \in DOMAIN eventQueue :
       eventQueue[i].tid > 1 /\ hist[eventQueue[i].tid].hook = hist[1].hook

(***************************************************************************)
(* Properties of the circuit-broken sender                                 *)
(***************************************************************************)

\* the breaker is open and its cooldown has not elapsed
Blocking == circuitBreaker.isOpen /\ now - circuitBreaker.lastOpened <= cooldown

\* the step issues a POST from a send()
PostIssued == \E s \in 1..MaxSends : sends[s].pc # "http" /\ sends'[s].pc = "http"

\* the step is a failed POST of send() s
AttemptFailed(s) ==
  /\ sends[s].pc = "http"
  /\ \/ sends'[s].pc = "backoff"
     \/ /\ sends'[s].pc = "idle"
        /\ webhookStats'.failedRequests = webhookStats.failedRequests + 1

\* C8: once the failure count has reached the threshold the breaker is open, and
\* while it is open and the cooldown has not elapsed no send() issues a POST.
C8_NoPostWhileOpen ==
  /\ [](circuitBreaker.failures >= threshold => circuitBreaker.isOpen)
  /\ [][Blocking => ~PostIssued]_vars

\* C9: every failed attempt, retried or terminal, increments failures by one, and
\* the breaker is open with its open time recorded once the count reaches the threshold.
C9_EveryFailedAttemptCounts ==
  [][\A s \in 1..MaxSends :
       AttemptFailed(s) =>
         /\ circuitBreaker'.failures = circuitBreaker.failures + 1
         /\ circuitBreaker'.failures >= threshold =>
              circuitBreaker'.isOpen /\ circuitBreaker'.lastOpened = now]_vars

SendSucceeded(s) == sends[s].pc = "http" /\ AttemptOk(s)

\* C11: immediately after a send() completes successfully the breaker is closed
\* and the failure count is 0, even if other failures opened the breaker while
\* that send() was in flight.
C11_SuccessClosesBreaker ==
  [][\A s \in 1..MaxSends :
       SendSucceeded(s) =>
         /\ ~circuitBreaker'.isOpen
         /\ circuitBreaker'.failures = 0]_vars

\* the step is a send() that finds the breaker open and returns circuit_open
SendSkipped(s) == send(s) /\ circuitBreaker'.isOpen

\* C12: a send() requested while the breaker is open issues no POST, is counted
\* as one more failed request, and leaves nothing behind that retries it.
C12_SkippedCountsAsFailure ==
  [][\A s \in 1..MaxSends :
       SendSkipped(s) =>
         /\ sends' = sends
         /\ webhookStats'.failedRequests = webhookStats.failedRequests + 1]_vars

(***************************************************************************)
(* Properties of the connection manager                                    *)
(***************************************************************************)

\* the step is the reconnection timer's callback calling initialize()
AutoConnect == \E t \in BagToSet(reconnectTimers) : ReconnectFires(t)

\* the step handles a 'disconnected' notification with retries left
DisconnectWithBudget ==
  /\ retryCount < waMaxRetries
  /\ \E c \in DOMAIN clients : Disconnected(c, "transient")

\* the step handles a 'disconnected' notification with retryCount at maxRetries
DisconnectAtMax ==
  /\ retryCount >= waMaxRetries
  /\ \E c \in DOMAIN clients : Disconnected(c, "transient")

\* C13: a transient disconnect handled with retries left increments the counter
\* to n and arms exactly one timer, with delay min(base * multiplier^(n-1), cap):
\* the base delay for n = 1, never less than the delay armed for n - 1, never
\* more than the cap. (Base, multiplier and cap are those of the code's formula.)
C13_BackoffDelay ==
  [][DisconnectWithBudget =>
       LET n == retryCount'
           d == Min(backoffBase * backoffFactor ^ (n - 1), backoffCap)
       IN  /\ n = retryCount + 1
           /\ reconnectTimers' = reconnectTimers (+) SetToBag({[n |-> n, delay |-> d]})
           /\ n = 1 => d = backoffBase
           /\ d <= backoffCap
           /\ \A t \in BagToSet(reconnectTimers) : t.n < n => t.delay <= d]_vars

\* C14: at most one reconnection timer is pending in every reachable state, and
\* initialize() called from outside leaves none pending.
C14_SingleReconnectTimer ==
  /\ [](BagCardinality(reconnectTimers) <= 1)
  /\ [][Initialize => reconnectTimers' = EmptyBag]_vars

\* C15: when logout() completes no reconnection timer is left pending, logout()
\* arms none, and after it no timer calls initialize() until initialize() is
\* called from outside.
C15_NoAutoConnectAfterLogout ==
  [][/\ (DestroyResolved \/ (LogoutCall /\ client = 0)) => reconnectTimers' = EmptyBag
     /\ AutoConnect => ~loggedOut]_vars

\* C16: right after a 'ready' notification the session is connected and
\* retryCount is 0, whatever it was before.
C16_ReadyResetsRetryCount ==
  lastEmit = <<"ready">> => isReady /\ retryCount = 0

\* C16 witness: a 'ready' arrived after the counter had reached maxRetries (the
\* timer armed by the third disconnect is still pending) and the counter is 0
C16_Witness ==
  /\ lastEmit = <<"ready">> /\ isReady /\ retryCount = 0
  /\ \E t \in BagToSet(reconnectTimers) : t.n = waMaxRetries

\* C17: right after a 'ready' notification no reconnection timer is pending, and
\* no timer calls initialize() while the session is connected.
C17_NoTimerOnceConnected ==
  /\ [](lastEmit = <<"ready">> => reconnectTimers = EmptyBag)
  /\ [][AutoConnect => ~isReady]_vars

\* C18: a disconnect that finds retryCount at maxRetries arms no timer, and from
\* then on no timer calls initialize() until initialize() is called from outside.
C18_NoAutoConnectWhenExhausted ==
  [][/\ DisconnectAtMax => reconnectTimers' = reconnectTimers
     /\ AutoConnect => ~exhausted]_vars

\* C19: the disconnect that finds retryCount at maxRetries emits session.failed
\* and leaves getStatus() reporting something other than what a plain close
\* leaves (not ready, no QR, counter and authentication as before).
C19_FailedStateAndEvent ==
  [][DisconnectAtMax =>
       /\ \E i \in DOMAIN lastEmit' : lastEmit'[i] = "session.failed"
       /\ getStatus' # [getStatus EXCEPT !.isReady = FALSE, !.hasQR = FALSE]]_vars

\* C20: a 'disconnected' notification whose reason is terminal (logged out,
\* session conflict) arms no reconnection timer, whatever retryCount is.
C20_TerminalNeverReconnects ==
  [][\A c \in DOMAIN clients : \A reason \in TerminalReasons :
       Disconnected(c, reason) => reconnectTimers' = reconnectTimers]_vars

\* C21: the handler of a 'disconnected' notification whose reason is logged_out
\* leaves neither session data nor a QR code stored, whatever retryCount is; the
\* next initialize(), which a pending timer or a caller may run at once, finds
\* both cleared.
C21_LoggedOutClearsSession ==
  [][\A c \in DOMAIN clients :
       Disconnected(c, "logged_out") => ~sessionData' /\ ~qrCode']_vars

\* a connection attempt is in progress: this.client has neither become ready nor closed
ConnectInProgress == client # 0 /\ clients[client] = "starting"

\* C22: initialize() called while an attempt is in progress changes no state: no
\* second Client is created and no second set of handlers is registered.
C22_ConnectIdempotent ==
  [][(Initialize /\ ConnectInProgress) =>
       /\ clients' = clients /\ client' = client
       /\ UNCHANGED <<isReady, qrCode, sessionData, retryCount, reconnectTimers>>]_vars

\* C23: when client.initialize() throws with retries left, the counter is
\* incremented and one more reconnection timer is armed, as for a transient
\* disconnect.
C23_ConnectFailureIsTransient ==
  [][\A c \in DOMAIN clients :
       (InitializeThrows(c) /\ retryCount < waMaxRetries) =>
         /\ retryCount' = retryCount + 1
         /\ BagCardinality(reconnectTimers') = BagCardinality(reconnectTimers) + 1]_vars

\* C24: in every reachable state the session is not ready while a QR code is stored.
C24_NeverReadyWithQr ==
  ~(isReady /\ qrCode)

(***************************************************************************)
(* Properties of the QR store                                              *)
(***************************************************************************)

\* C25: handleQR() called while the store is locked changes nothing: the stored
\* image, the backup file, the lock flag, the lock time, the calls in progress
\* and the timers are as before.
C25_LockedIssueIsNoOp ==
  [][(handleQR /\ qrLocked) =>
       UNCHANGED <<qrBase64, qrFile, qrLocked, qrLockTime, qrOps, qrIssued,
                   unlockTimers>>]_vars

\* C25 witness: an image is stored, the store is locked, and the handleQR() call
\* of the last step was skipped
C25_Witness ==
  qrLast = "skipped" /\ qrLocked /\ qrBase64 # 0 /\ qrLockTime # Null

\* C26: a handleQR() call made when more than LOCK_TIMEOUT has passed since the
\* lock was taken is accepted, with no unlock call from outside; and the store is
\* never locked with nothing left that will unlock it (no handleQR() in progress,
\* no unlock timer pending).
C26_LockExpires ==
  /\ [][(handleQR /\ qrLocked /\ qrLockTime # Null
           /\ now - qrLockTime > LOCK_TIMEOUT) => qrLast' = "accepted"]_vars
  /\ [](~(qrLocked /\ qrOps = {} /\ unlockTimers = EmptyBag))

\* C27: once a cleanup() has completed, and until a handleQR() called after it is
\* accepted, neither the memory nor the backup file holds an image.
C27_ClearedStaysCleared ==
  cleared = "done" => ~QrAvailable

(***************************************************************************)
(* Registry validation through the HTTP API                                *)
(***************************************************************************)

\* the endpoint of a body is not an absolute http/https URL
BadEndpoint(u) == u \in {Undefined, "", "hook", "ftp://host/hook"}

\* the events of a body are not a non-empty array of kinds of the vocabulary
BadEvents(e) == ~IsArray(e) \/ e = {} \/ \E k \in e : k \notin validEvents

UrlMessages ==
  {"URL is required", "Invalid URL format", "URL must use HTTP or HTTPS protocol"}

EventsMessages ==
  {"Events must be an array", "At least one event must be specified", "Invalid events"}

\* the response reports the endpoint, the events, and every unknown kind
ReportsEndpoint(resp) == \E e \in resp.errors : e.msg \in UrlMessages
ReportsEvents(resp) == \E e \in resp.errors : e.msg \in EventsMessages
ReportsKinds(resp, kinds) ==
  \E e \in resp.errors : e.msg = "Invalid events" /\ e.items = kinds

\* C28: a registration whose endpoint is not an absolute http/https URL, or
\* whose events are empty or hold a kind outside the vocabulary, is answered
\* 400, the answer reports every violation present (the endpoint and the
\* events when both are wrong, and every unknown kind), and heap, webhooks
\* and nextId are unchanged.
C28_RegisterRejectsListingAll ==
  [][\A body \in RegisterBodies :
       (RegisterRequest(body) /\ (BadEndpoint(body.url) \/ BadEvents(body.events)))
         => /\ lastResponse'.status = 400
            /\ BadEndpoint(body.url) => ReportsEndpoint(lastResponse')
            /\ BadEvents(body.events) => ReportsEvents(lastResponse')
            /\ (IsArray(body.events) /\ body.events \ validEvents # {})
                 => ReportsKinds(lastResponse', body.events \ validEvents)
            /\ (body.name = NotAString)
                 => \E e \in lastResponse'.errors : e.msg = "Name must be a string"
            /\ UNCHANGED <<heap, webhooks, nextId>>]_vars

\* a registration with a wrong endpoint, two unknown kinds and a wrong name was
\* answered with all of them, while a subscriber is registered
C28_Witness ==
  /\ lastResponse.status = 400
  /\ ReportsEndpoint(lastResponse)
  /\ ReportsKinds(lastResponse, {"bogus.kind", "other.kind"})
  /\ \E e \in lastResponse.errors : e.msg = "Name must be a string"
  /\ Len(webhooks) >= 1

\* the url or the events of an update body is present and invalid
PresentInvalid(updates) ==
  \/ "url" \in DOMAIN updates /\ BadEndpoint(updates.url)
  \/ "events" \in DOMAIN updates /\ BadEvents(updates.events)

\* C29: an update whose url or events field is present but invalid (an empty
\* url, a url that is not http/https, events that are empty or hold an unknown
\* kind) is rejected and the subscriber is unchanged.
C29_UpdateRejectsInvalid ==
  [][\A i \in DOMAIN webhooks, updates \in UpdateBodies :
       (UpdateRequest(i, updates) /\ PresentInvalid(updates))
         => /\ lastResponse'.status # 200
            /\ UNCHANGED <<heap, webhooks>>]_vars

\* C30: no update changes the id, createdAt, successCount or failureCount of
\* the subscriber the registry holds.
C30_UpdateKeepsOwnedFields ==
  [][\A i \in DOMAIN webhooks, updates \in UpdateBodies :
       UpdateRequest(i, updates)
         => LET old == heap[webhooks[i].ref]
                new == heap'[webhooks'[i].ref]
            IN  /\ new.id = old.id
                /\ new.createdAt = old.createdAt
                /\ new.successCount = old.successCount
                /\ new.failureCount = old.failureCount]_vars

\* the response carries the service's 'Webhook not found' error
NotFoundReported(resp) ==
  /\ resp.status = 500
  /\ \E e \in resp.errors :
       e.msg \in {"Update webhook failed: Webhook not found",
                  "Delete webhook failed: Webhook not found"}

\* C31: an update or a delete with an id the registry does not hold fails with
\* the not-found error (an update whose body the controller refuses fails with
\* the validation error before the registry is asked) and leaves heap, webhooks
\* and nextId unchanged; this includes a delete of an id deleted before.
C31_UnknownIdNotFound ==
  [][/\ \A id \in IdInputs, updates \in UpdateBodies :
          UpdateRequestUnknown(id, updates)
            => /\ UNCHANGED <<heap, webhooks, nextId>>
               /\ lastResponse'.status # 200
               /\ lastResponse'.status # 400 => NotFoundReported(lastResponse')
     /\ \A id \in IdInputs :
          DeleteRequestUnknown(id)
            => /\ UNCHANGED <<heap, webhooks, nextId>>
               /\ NotFoundReported(lastResponse')]_vars

\* every id was registered and deleted, and a further delete was answered with
\* not found
C31_Witness ==
  /\ nextId = MaxHooks + 1
  /\ webhooks = <<>>
  /\ \E e \in lastResponse.errors : e.msg = "Delete webhook failed: Webhook not found"

(***************************************************************************)
(* Pipeline: counters, test delivery, isolation, removal                   *)
(***************************************************************************)

\* the successCount the registry reports for the webhook with key id
ReportedSuccessCount(ws, h, id) ==
  LET w == CHOOSE x \in Range(ws) : x.id = id IN h[w.ref].successCount

\* C32: a delivery that gets a 2xx increases by exactly one the successCount
\* the registry reports for the task's webhook, as long as it is registered,
\* also when it was updated after the event was published.
C32_SuccessCountedInRegistry ==
  [][\A l \in loops :
       (SendOk(l) /\ hist[l.item.tid].hook \in Ids)
         => ReportedSuccessCount(webhooks', heap', hist[l.item.tid].hook)
              = ReportedSuccessCount(webhooks, heap, hist[l.item.tid].hook) + 1]_vars

\* a step of a test delivery: the call, or the return of its POST
TestStep ==
  \/ \E i \in DOMAIN webhooks : TestCall(i)
  \/ \E k \in DOMAIN tests.pending : TestOk(k) \/ TestFail(k)

\* C33: a test delivery issues exactly one POST, and none of its steps, the
\* successful and the failed return included, changes the queue, a webhook's
\* successCount or failureCount, the retry timers or items, or the circuit
\* breaker.
C33_TestLeavesPipelineAlone ==
  /\ [](tests.posts = tests.calls)
  /\ [][TestStep => UNCHANGED <<heap, webhooks, eventQueue, isProcessing, loops, timers,
                                hist, circuitBreaker, webhookStats>>]_vars

\* a test has failed and another has succeeded while a delivery task was
\* waiting on its retry timer
C33_Witness ==
  /\ tests.calls = 2 /\ tests.pending = <<>> /\ tests.last = "failed"
  /\ timers # {}
  /\ \E r \in DOMAIN heap : heap[r].failureCount > 0

\* a step in which the pipeline reaches an outcome: a POST succeeds or fails
\* (with the retry timer armed or the task dropped), the loop goes on or ends,
\* a retry timer re-enqueues
PipelineOutcome ==
  \/ \E l \in loops : SendOk(l) \/ SendFail(l) \/ DelayDone(l)
  \/ \E t \in timers : RetryTimer(t)

\* C34: no outcome of the pipeline changes the connection manager's state
\* (isReady, the current client, the clients' states) or retryCount or the
\* reconnect timers, and once a delivery has failed no caller of
\* _triggerWebhook is waiting for it.
C34_PipelineIsolated ==
  /\ [][PipelineOutcome => UNCHANGED <<clients, client, isReady, qrCode, sessionData,
                                      retryCount, reconnectTimers>>]_vars
  /\ [](\A t \in DOMAIN hist : hist[t].fails > 0 => awaiting = 0)

\* a delivery of 'client.ready' was dropped after its retries while the
\* connection was down with one reconnect attempt counted
C34_Witness ==
  /\ \E t \in DOMAIN hist : hist[t].status = "dropped"
  /\ ~isReady /\ retryCount = 1

\* C35: in every reachable state 0 <= retryCount <= maxRetries.
C35_RetryCountBounded ==
  retryCount \in 0..waMaxRetries

\* a disconnect has found the budget used up: retryCount is at its maximum and
\* was not increased
C35_Witness ==
  retryCount = waMaxRetries /\ exhausted /\ lastEmit = << "disconnected" >>

\* the webhook with key id is registered and active
RegisteredActive(id) ==
  \E w \in Range(webhooks) : w.id = id /\ heap[w.ref].isActive

\* C36: a POST is issued for an already existing task only if its webhook is
\* still registered and active: after deleteWebhook(id) or an update that sets
\* isActive to false, tasks queued or waiting on a retry timer are not sent.
C36_NoDeliveryAfterRemoval ==
  [][\A t \in DOMAIN hist :
       hist'[t].posts > hist[t].posts => RegisteredActive(hist[t].hook)]_vars

\* C37: once clearQueue() has returned, no task created before the call is in
\* the queue and none is POSTed again; this includes the tasks that were
\* waiting on a retry timer when the queue was cleared.
C37_ClearedTasksStayOut ==
  /\ [](\A t \in 1..clearedUpTo : ~Queued(t))
  /\ [][\A t \in 1..clearedUpTo : hist'[t].posts = hist[t].posts]_vars

(***************************************************************************)
(* QR store: stale unlock timers                                           *)
(***************************************************************************)

\* C38: a lock is released only by cleanup(), by the error path of handleQR, or
\* by a timer that finds it held for longer than LOCK_TIMEOUT: a timer armed by
\* an earlier handleQR() does not release the lock a later one has just taken.
C38_StaleTimerKeepsLock ==
  [][(qrLocked /\ ~qrLocked')
       => \/ CleanupCall
          \/ \E op \in qrOps : HandleQRFails(op)
          \/ now - qrLockTime > LOCK_TIMEOUT]_vars

\* the second handleQR() took the lock at time 1 and is still rendering or
\* writing, so it has armed no timer; the first one wrote its file, so it armed
\* a timer, due at 2 or later; that timer has fired, and the lock is still held
C38_Witness ==
  /\ qrIssued = 2 /\ qrLocked /\ qrLockTime = 1
  /\ \E op \in qrOps : op.tok = 2
  /\ qrFile = 1
  /\ unlockTimers = EmptyBag
  /\ now - qrLockTime <= LOCK_TIMEOUT

(***************************************************************************)
(* Scheduled messages                                                      *)
(***************************************************************************)

\* C39: the loop calls sendMessage at most once for each scheduled message,
\* and at most one _processQueue() invocation is running, whatever the
\* interleaving of scheduleMessage(), clearQueue() and the loop's awaits.
C39_SentAtMostOnce ==
  /\ \A id \in DOMAIN messages : messages[id].handed <= 1
  /\ Len(msgLoops) <= 1

\* every message was scheduled, two of them while the loop was running, and the
\* last one is being sent although clearQueue() has emptied the queue meanwhile
C39_Witness ==
  /\ Len(messages) = MaxMsgs
  /\ \A id \in DOMAIN messages : messages[id].handed = 1
  /\ Len(msgLoops) = 1 /\ msgLoops[1].pc = "send"
  /\ messageQueue = <<>>

\* the message was sent: the await of its send is over and it did not fail
Sent(id) ==
  /\ messages[id].status = "processing"
  /\ \A k \in DOMAIN msgLoops : msgLoops[k].cur # id

\* every scheduled message has been sent or has failed
AllSettled ==
  /\ Len(messages) > 0
  /\ \A id \in DOMAIN messages : Sent(id) \/ messages[id].status = "failed"

\* C40: once every scheduled message has been sent or has failed, the loop
\* ends: isProcessingQueue becomes false again.
C40_LoopTerminates ==
  AllSettled ~> ~isProcessingQueue

====
